---- MODULE Spec2Model ----
(***************************************************************************)
(* Edge-hosted HTTP handlers of the church website: the catch-all router   *)
(* (functions/[[path]].ts), the health check, the KV-backed /api/news      *)
(* handler and the database-backed /api/news and /api/news/:id handlers.   *)
(*                                                                         *)
(* One step of the model is one HTTP request handled to completion: the    *)
(* router, the handler it delegates to and every store call the handler    *)
(* makes.  The request handled last, the response the caller received and  *)
(* the effects of the step (ctx.next, ASSETS.fetch, store calls) are kept  *)
(* in req, resp and calls.                                                 *)
(*                                                                         *)
(* History variables: submitted (the body each row still untouched since   *)
(* its creation was created from), kept by SpecRoundTrip, and writes (the  *)
(* arrays written to the KV key, in the order of the writes), kept by      *)
(* SpecKv and SpecConcurrent.  inflight holds the requests of concurrent   *)
(* callers while their handlers are suspended at an await.                 *)
(***************************************************************************)
EXTENDS Integers, Sequences, FiniteSets, TLC

VARIABLES env, table, nextId, kv, req, resp, calls, submitted, writes, inflight

vars == <<env, table, nextId, kv, req, resp, calls, submitted, writes, inflight>>

(***************************************************************************)
(* Bounds of the model.                                                    *)
(***************************************************************************)
\* largest identifier the store assigns (rows ever created)
MaxId == 2
\* longest array of posts a whole-collection PUT carries
MaxPosts == 2
\* most writes to the KV key in one behaviour
MaxWrites == 2
\* callers whose requests to the KV-backed handler are in flight together
MaxClients == 3

(***************************************************************************)
(* A request: method, path, the headers the handlers read, the parsed      *)
(* body, and what the environment does while it is handled: fault (the     *)
(* downstream function throws), storeFails (the store call reports an      *)
(* error), order (the order in which the store lists the rows).            *)
(***************************************************************************)
Req(method, path, origin, ctype, body, xAdminToken, authorization, fault, storeFails, order) ==
  [ method |-> method, path |-> path, origin |-> origin, ctype |-> ctype, body |-> body,
    xAdminToken |-> xAdminToken, authorization |-> authorization, fault |-> fault,
    storeFails |-> storeFails, order |-> order ]

(***************************************************************************)
(* JSON / JavaScript values.  A value is a sequence of strings whose first  *)
(* element is its type tag; a string value carries its characters after    *)
(* the tag (a multi-letter element stands for a run of non-blank            *)
(* characters, " " is a blank).                                             *)
(***************************************************************************)
Str(s) == <<"str">> \o s
Num(d) == <<"num", d>>
Bool(b) == <<"bool", b>>
JNull == <<"null">>
Undefined == <<"undefined">>

TypeOf(v) == v[1]
Chars(v) == Tail(v)
\* v ?? d
Coalesce(v, d) == IF TypeOf(v) \in {"null", "undefined"} THEN d ELSE v
\* Boolean(v), !v
Truthy(v) ==
  CASE TypeOf(v) = "str" -> Len(v) > 1
    [] TypeOf(v) = "num" -> v[2] # "0"
    [] TypeOf(v) = "bool" -> v[2] = "true"
    [] OTHER -> FALSE
ToBoolean(v) == IF Truthy(v) THEN Bool("true") ELSE Bool("false")

RECURSIVE TrimStart(_)
TrimStart(s) == IF s # <<>> /\ Head(s) = " " THEN TrimStart(Tail(s)) ELSE s
RECURSIVE TrimEnd(_)
TrimEnd(s) ==
  IF s # <<>> /\ s[Len(s)] = " " THEN TrimEnd(SubSeq(s, 1, Len(s) - 1)) ELSE s
\* String.prototype.trim on the characters of a string
Trim(s) == TrimEnd(TrimStart(s))
TrimStr(v) == Str(Trim(Chars(v)))

(***************************************************************************)
(* Request bodies: what request.json() yields.                             *)
(*   kind "malformed": the body is not parseable JSON (json() rejects)     *)
(*   kind "null" / "num": the JSON values null and a number                 *)
(*   kind "array": a JSON array with the elements elems                     *)
(*   kind "object": a JSON object with the members fields                   *)
(***************************************************************************)
NoFields == [k \in {} |-> Undefined]
Malformed == [kind |-> "malformed", fields |-> NoFields, elems |-> <<>>]
BodyNull == [kind |-> "null", fields |-> NoFields, elems |-> <<>>]
BodyNum == [kind |-> "num", fields |-> NoFields, elems |-> <<>>]
BodyArray(a) == [kind |-> "array", fields |-> NoFields, elems |-> a]
Obj(f) == [kind |-> "object", fields |-> f, elems |-> <<>>]

\* 'k' in body
HasKey(body, k) == k \in DOMAIN body.fields
\* body.k
Get(body, k) == IF HasKey(body, k) THEN body.fields[k] ELSE Undefined

(***************************************************************************)
(* Responses.                                                              *)
(***************************************************************************)
NoBody == [kind |-> "none", ok |-> "", error |-> "", count |-> -1, items |-> <<>>]
ErrBody(msg) == [kind |-> "json", ok |-> "false", error |-> msg, count |-> -1, items |-> <<>>]
OkBody == [kind |-> "json", ok |-> "true", error |-> "", count |-> -1, items |-> <<>>]
ItemBody(item) == [kind |-> "json", ok |-> "true", error |-> "", count |-> -1, items |-> <<item>>]
ListBody(items) ==
  [kind |-> "json", ok |-> "true", error |-> "", count |-> Len(items), items |-> items]

Response(status, headers, body) == [body |-> body, status |-> status, headers |-> headers]

\* what a handler invocation leaves behind: its response, the store and the calls made
Outcome(r, t, n, k, c) == [table |-> t, nextId |-> n, kv |-> k, resp |-> r, calls |-> c]

(***************************************************************************)
(* CORS policy of functions/api/news.ts and functions/api/ping.ts.         *)
(***************************************************************************)
NoOrigin == "<no origin header>"

ALLOWED_ORIGINS ==
  { "https://woodong.or.kr", "https://woodong-church.pages.dev",
    "http://localhost:5173", "http://127.0.0.1:5173" }

\* null is NoOrigin
resolveAllowedOrigin(r) ==
  IF r.origin # NoOrigin /\ r.origin \in ALLOWED_ORIGINS THEN r.origin ELSE NoOrigin

CorsHeaders(r, methods) ==
  LET allowed == resolveAllowedOrigin(r)
      allowOrigin == IF allowed # NoOrigin THEN allowed ELSE "*"
  IN  [h \in { "access-control-allow-origin", "access-control-allow-methods",
               "access-control-allow-headers", "access-control-max-age", "vary" } |->
        CASE h = "access-control-allow-origin" -> allowOrigin
          [] h = "access-control-allow-methods" -> methods
          [] h = "access-control-allow-headers" -> "Content-Type, Accept, Authorization"
          [] h = "access-control-max-age" -> "86400"
          [] OTHER -> "Origin"]

buildCorsHeaders(r) == CorsHeaders(r, "GET,PUT,OPTIONS")
pingBuildCorsHeaders(r) == CorsHeaders(r, "GET,OPTIONS")

JsonDefaults ==
  [h \in {"content-type", "cache-control"} |->
    IF h = "content-type" THEN "application/json; charset=utf-8" ELSE "no-store"]

\* json(data, init, extraHeaders) of news.ts and ping.ts: later spreads win
jsonCors(body, status, initHeaders, extraHeaders) ==
  Response(status, initHeaders @@ extraHeaders @@ JsonDefaults, body)

\* json(data, init) of the database-backed handlers: set() after init.headers
json(body, status, initHeaders) ==
  Response(status, JsonDefaults @@ initHeaders, body)

NoHeaders == [h \in {} |-> ""]
AllowHeader == [h \in {"allow"} |-> "GET,PUT,OPTIONS"]

(***************************************************************************)
(* functions/api/news.ts: the KV-backed /api/news handler.                 *)
(* The value stored under the key "posts" is a string; it is modelled as   *)
(* the sequence of its tokens, KvNull when the key is absent.              *)
(***************************************************************************)
KvNull == <<"<null>">>

\* a serialisation that loses the last element
JSONstringifyTruncated(a) == <<"[">> \o SubSeq(a, 1, Len(a) - 1) \o <<"]">>
\* JSON.stringify of an array
JSONstringify(a) == <<"[">> \o a \o <<"]">>

\* JSON.parse of a stored string: an array, another JSON value, or a SyntaxError
JSONparse(raw) ==
  IF Len(raw) >= 2 /\ raw[1] = "[" /\ raw[Len(raw)] = "]"
  THEN BodyArray(SubSeq(raw, 2, Len(raw) - 1))
  ELSE IF raw = <<"{}">> THEN Obj(NoFields) ELSE Malformed

\* the content-type headers of the model; "" stands for an absent header (|| '')
ContentTypes == { "application/json", "Application/JSON; charset=utf-8", "text/plain", "" }

\* the check of a handler that accepts any content-type
ctypeIsJsonAny(ctype) == ctype \in ContentTypes
\* ctype.toLowerCase().includes('application/json')
ctypeIsJson(ctype) ==
  ctype \in {"application/json", "Application/JSON; charset=utf-8"}

ArrayBody(a) == [kind |-> "array", ok |-> "", error |-> "", count |-> -1, items |-> a]
KvErrBody(code) == [kind |-> "json", ok |-> "", error |-> code, count |-> -1, items |-> <<>>]
KvOkBody(n) == [kind |-> "json", ok |-> "true", error |-> "", count |-> n, items |-> <<>>]

handleOptions(r) == Response(204, buildCorsHeaders(r), NoBody)

newsKvGet(r, st) ==
  IF r.storeFails
  THEN Outcome(jsonCors(KvErrBody("KV_READ_FAILED"), 500, NoHeaders, buildCorsHeaders(r)),
               st.table, st.nextId, st.kv, <<"kv.get">>)
  ELSE LET raw == IF st.kv = KvNull \/ st.kv = <<>> THEN <<"[", "]">> ELSE st.kv
           p == JSONparse(raw)
           parsed == IF p.kind = "array" THEN p.elems ELSE <<>>
       IN  Outcome(jsonCors(ArrayBody(parsed), 200, NoHeaders, buildCorsHeaders(r)),
                   st.table, st.nextId, st.kv, <<"kv.get">>)

newsKvPut(r, st) ==
  IF ~ctypeIsJson(r.ctype)
  THEN Outcome(jsonCors(KvErrBody("UNSUPPORTED_MEDIA_TYPE"), 415, AllowHeader, buildCorsHeaders(r)),
               st.table, st.nextId, st.kv, <<>>)
  ELSE IF r.body.kind = "malformed"
  THEN \* request.json() rejects inside the try block
       Outcome(jsonCors(KvErrBody("KV_WRITE_FAILED"), 500, AllowHeader, buildCorsHeaders(r)),
               st.table, st.nextId, st.kv, <<>>)
  ELSE IF r.body.kind # "array"
  THEN Outcome(jsonCors(KvErrBody("INVALID_PAYLOAD"), 400, AllowHeader, buildCorsHeaders(r)),
               st.table, st.nextId, st.kv, <<>>)
  ELSE IF r.storeFails
  THEN Outcome(jsonCors(KvErrBody("KV_WRITE_FAILED"), 500, AllowHeader, buildCorsHeaders(r)),
               st.table, st.nextId, st.kv, <<"kv.put">>)
  ELSE Outcome(jsonCors(KvOkBody(Len(r.body.elems)), 200, AllowHeader, buildCorsHeaders(r)),
               st.table, st.nextId, JSONstringify(r.body.elems), <<"kv.put">>)

newsKvOnRequest(r, st) ==
  CASE r.method = "OPTIONS" ->
         Outcome(handleOptions(r), st.table, st.nextId, st.kv, <<>>)
    [] r.method = "GET" -> newsKvGet(r, st)
    [] r.method = "PUT" -> newsKvPut(r, st)
    [] OTHER ->
         Outcome(jsonCors(KvErrBody("METHOD_NOT_ALLOWED"), 405, AllowHeader, buildCorsHeaders(r)),
                 st.table, st.nextId, st.kv, <<>>)

(***************************************************************************)
(* Health check: functions/api/ping.ts (per-method exports) and the        *)
(* single-entry variant.                                                   *)
(***************************************************************************)
PongBody == [kind |-> "json", ok |-> "true", error |-> "", count |-> -1, items |-> <<"pong">>]
PingNoCache ==
  [h \in {"content-type", "cache-control"} |->
    IF h = "content-type" THEN "application/json; charset=utf-8"
    ELSE "no-store, no-cache, must-revalidate, proxy-revalidate, max-age=0"]

pingOnRequest(r, st) ==
  IF r.method # "GET"
  THEN Outcome(Response(405, PingNoCache, ErrBody("Method Not Allowed")),
               st.table, st.nextId, st.kv, <<>>)
  ELSE Outcome(Response(200, [h \in {"x-powered-by"} |-> "cloudflare-pages-functions"] @@ PingNoCache,
                        PongBody),
               st.table, st.nextId, st.kv, <<>>)

pingOnRequestOptions(r, st) ==
  Outcome(Response(204, pingBuildCorsHeaders(r), NoBody), st.table, st.nextId, st.kv, <<>>)

pingOnRequestGet(r, st) ==
  Outcome(jsonCors(OkBody, 200, NoHeaders, pingBuildCorsHeaders(r)),
          st.table, st.nextId, st.kv, <<>>)

(***************************************************************************)
(* Database-backed handlers: shared shapes and helpers.                    *)
(* table is the set of rows of the news table; the store assigns nextId    *)
(* to the next inserted row.  The category values are written in Latin     *)
(* letters: "jubo", "gongjisahang", "haengsaannae".                        *)
(***************************************************************************)
Categories == { Str(<<"jubo">>), Str(<<"gongjisahang">>), Str(<<"haengsaannae">>) }

Columns ==
  { "title", "date", "category", "content", "file_url", "file_name", "file_size",
    "views", "is_new", "show_on_home", "image_url" }

\* the row the store keeps for an inserted dbRow
StoredRow(id, dbRow) == [c \in Columns \cup {"id"} |-> IF c = "id" THEN id ELSE dbRow[c]]

\* row ?? undefined of an optional column
OrUndefined(v) == Coalesce(v, Undefined)

\* a conversion that reads file_name for fileUrl
toApiSwapped(row) ==
  [ title |-> row.title, date |-> row.date, category |-> row.category,
    content |-> row.content, views |-> row.views, id |-> row.id,
    fileUrl |-> OrUndefined(row.file_name),
    fileName |-> OrUndefined(row.file_name),
    fileSize |-> OrUndefined(row.file_size),
    isNew |-> row.is_new, showOnHome |-> row.show_on_home,
    imageUrl |-> OrUndefined(row.image_url) ]
toApi(row) ==
  [ title |-> row.title, date |-> row.date, category |-> row.category,
    content |-> row.content, views |-> row.views, id |-> row.id,
    fileUrl |-> OrUndefined(row.file_url),
    fileName |-> OrUndefined(row.file_name),
    fileSize |-> OrUndefined(row.file_size),
    isNew |-> row.is_new, showOnHome |-> row.show_on_home,
    imageUrl |-> OrUndefined(row.image_url) ]

\* the columns toDb emits for a body, each with the key of the body it reads
toDbTyped(body) ==
  { c \in {"title", "date", "category", "content"} : TypeOf(Get(body, c)) = "str" }
    \cup (IF TypeOf(Get(body, "views")) = "num" THEN {"views"} ELSE {})
\* the optional columns emitted whether or not the body has their keys
toDbPresentAlways(body) ==
  {"file_url", "file_name", "file_size", "is_new", "show_on_home", "image_url"}
toDbPresent(body) ==
  (IF HasKey(body, "fileUrl") THEN {"file_url"} ELSE {})
    \cup (IF HasKey(body, "fileName") THEN {"file_name"} ELSE {})
    \cup (IF HasKey(body, "fileSize") THEN {"file_size"} ELSE {})
    \cup (IF HasKey(body, "isNew") THEN {"is_new"} ELSE {})
    \cup (IF HasKey(body, "showOnHome") THEN {"show_on_home"} ELSE {})
    \cup (IF HasKey(body, "imageUrl") THEN {"image_url"} ELSE {})
toDbKeys(body) == toDbTyped(body) \cup toDbPresent(body)

\* toDb applied to an object (or array) body: the partial row
toDb(body) ==
  [c \in toDbKeys(body) |->
    CASE c \in {"title", "date"} -> TrimStr(Get(body, c))
      [] c \in {"category", "content", "views"} -> Get(body, c)
      [] c = "file_url" -> Coalesce(Get(body, "fileUrl"), JNull)
      [] c = "file_name" -> Coalesce(Get(body, "fileName"), JNull)
      [] c = "file_size" -> Coalesce(Get(body, "fileSize"), JNull)
      [] c = "is_new" -> ToBoolean(Get(body, "isNew"))
      [] c = "show_on_home" -> ToBoolean(Get(body, "showOnHome"))
      [] OTHER -> Coalesce(Get(body, "imageUrl"), JNull)]

\* toDb throws a TypeError: body.title of null, or the in operator on a primitive
toDbThrows(body) == body.kind \in {"null", "num"}

\* getAdminClient throws unless SUPABASE_URL and SUPABASE_SERVICE_ROLE_KEY are set
getAdminClientThrows(e) == ~e.storeConfigured

MissingStoreConfig == "Missing SUPABASE_URL or SUPABASE_SERVICE_ROLE_KEY in Pages environment"
StoreError == "<store error message>"
TypeErrorMessage == "<TypeError message>"

\* validateCreate without the category check
validateCreateNoCategory(body) ==
  IF body.kind \in {"malformed", "null", "num"} THEN "Invalid JSON body"
  ELSE IF ~Truthy(Get(body, "title")) \/ TypeOf(Get(body, "title")) # "str"
  THEN "title is required"
  ELSE IF ~Truthy(Get(body, "date")) \/ TypeOf(Get(body, "date")) # "str"
  THEN "date is required (YYYY-MM-DD)"
  ELSE ""

\* validateCreate: the error message, "" when the body is valid
validateCreate(body) ==
  IF body.kind \in {"malformed", "null", "num"} THEN "Invalid JSON body"
  ELSE IF ~Truthy(Get(body, "title")) \/ TypeOf(Get(body, "title")) # "str"
  THEN "title is required"
  ELSE IF ~Truthy(Get(body, "date")) \/ TypeOf(Get(body, "date")) # "str"
  THEN "date is required (YYYY-MM-DD)"
  ELSE IF Get(body, "category") \notin Categories THEN "invalid category"
  ELSE ""

\* the dbRow a valid create body is turned into (defaults for optional fields)
createDbRow(body) ==
  [c \in Columns |->
    CASE c \in {"title", "date", "category"} -> Get(body, c)
      [] c = "content" -> Coalesce(Get(body, "content"), Str(<<>>))
      [] c = "file_url" -> Coalesce(Get(body, "fileUrl"), JNull)
      [] c = "file_name" -> Coalesce(Get(body, "fileName"), JNull)
      [] c = "file_size" -> Coalesce(Get(body, "fileSize"), JNull)
      [] c = "views" ->
           IF TypeOf(Get(body, "views")) = "num" THEN Get(body, "views") ELSE Num("0")
      [] c = "is_new" -> ToBoolean(Get(body, "isNew"))
      [] c = "show_on_home" -> ToBoolean(Get(body, "showOnHome"))
      [] OTHER -> Coalesce(Get(body, "imageUrl"), JNull)]

\* the orders in which select('*').order('date', desc) may return the rows:
\* sequences of row ids; DateOrder ranks the date strings of the model
DateOrder == <<Str(<<"2024-01-01">>), Str(<<"2024-02-01">>)>>
DateRank(d) ==
  IF \E i \in 1..Len(DateOrder) : DateOrder[i] = d
  THEN CHOOSE i \in 1..Len(DateOrder) : DateOrder[i] = d
  ELSE 0
RowOf(t, id) == CHOOSE row \in t : row.id = id
ListOrders(t) ==
  LET ids == {row.id : row \in t}
  IN  { o \in [1..Cardinality(ids) -> ids] :
          /\ \A i, j \in DOMAIN o : i # j => o[i] # o[j]
          /\ \A i, j \in DOMAIN o :
               i < j => DateRank(RowOf(t, o[i]).date) >= DateRank(RowOf(t, o[j]).date) }

\* GET of both database-backed /api/news variants
newsList(r, st) ==
  IF r.storeFails
  THEN Outcome(json(ErrBody(StoreError), 500, NoHeaders),
               st.table, st.nextId, st.kv, <<"createClient", "select">>)
  ELSE Outcome(json(ListBody([i \in DOMAIN r.order |-> toApi(RowOf(st.table, r.order[i]))]),
                    200, NoHeaders),
               st.table, st.nextId, st.kv, <<"createClient", "select">>)

\* validation and insert of both database-backed POST /api/news variants
newsCreate(r, st) ==
  LET body == r.body
      v == validateCreate(body)
      row == StoredRow(st.nextId, createDbRow(body))
  IN  IF v # ""
      THEN Outcome(json(ErrBody(v), 400, NoHeaders),
                   st.table, st.nextId, st.kv, <<"createClient">>)
      ELSE IF r.storeFails
      THEN Outcome(json(ErrBody(StoreError), 500, NoHeaders),
                   st.table, st.nextId, st.kv, <<"createClient", "insert">>)
      ELSE Outcome(json(ItemBody(toApi(row)), 201, NoHeaders),
                   st.table \cup {row}, st.nextId + 1, st.kv, <<"createClient", "insert">>)

MethodNotAllowed(st, c) ==
  Outcome(json(ErrBody("Method Not Allowed"), 405, NoHeaders), st.table, st.nextId, st.kv, c)

\* /api/news, unauthenticated variant
newsDbOnRequest(r, e, st) ==
  IF getAdminClientThrows(e)
  THEN Outcome(json(ErrBody(MissingStoreConfig), 500, NoHeaders),
               st.table, st.nextId, st.kv, <<>>)
  ELSE CASE r.method = "GET" -> newsList(r, st)
         [] r.method = "POST" -> newsCreate(r, st)
         [] OTHER -> MethodNotAllowed(st, <<"createClient">>)

(***************************************************************************)
(* /api/news, admin-authenticated variant.                                 *)
(***************************************************************************)
getEnvAdminToken(e) ==
  LET t == e.ADMIN_TOKEN
  IN  IF TypeOf(t) = "str" /\ Len(Trim(Chars(t))) > 0 THEN TrimStr(t) ELSE Undefined

\* auth.match(/^Bearer\s+(.+)$/i): the group, trimmed; JNull when there is no match
BearerWords == {"Bearer", "bearer", "BEARER"}
matchBearer(auth) ==
  LET c == Chars(auth)
  IN  IF Len(c) >= 3 /\ c[1] \in BearerWords /\ c[2] = " "
      THEN Str(Trim(SubSeq(c, 3, Len(c))))
      ELSE JNull

readAdminTokenFromRequest(r) ==
  LET h == IF TypeOf(r.xAdminToken) = "str" THEN TrimStr(r.xAdminToken) ELSE Undefined
      auth == r.authorization
  IN  IF Truthy(h) THEN h
      ELSE IF ~Truthy(auth) THEN JNull
      ELSE matchBearer(auth)

WwwAuthenticate ==
  [h \in {"www-authenticate"} |-> "Bearer realm=\"admin\", charset=\"UTF-8\""]

\* the admin guard without the comparison of the two tokens
newsAuthPostNoCompare(r, e, st) ==
  LET expected == getEnvAdminToken(e)
      provided == readAdminTokenFromRequest(r)
  IN  IF ~Truthy(expected)
      THEN Outcome(json(ErrBody("Server misconfiguration: ADMIN_TOKEN is not set"), 500, NoHeaders),
                   st.table, st.nextId, st.kv, <<"createClient">>)
      ELSE IF ~Truthy(provided)
      THEN Outcome(json(ErrBody("Missing admin token"), 401, WwwAuthenticate),
                   st.table, st.nextId, st.kv, <<"createClient">>)
      ELSE newsCreate(r, st)

newsAuthPost(r, e, st) ==
  LET expected == getEnvAdminToken(e)
      provided == readAdminTokenFromRequest(r)
  IN  IF ~Truthy(expected)
      THEN Outcome(json(ErrBody("Server misconfiguration: ADMIN_TOKEN is not set"), 500, NoHeaders),
                   st.table, st.nextId, st.kv, <<"createClient">>)
      ELSE IF ~Truthy(provided)
      THEN Outcome(json(ErrBody("Missing admin token"), 401, WwwAuthenticate),
                   st.table, st.nextId, st.kv, <<"createClient">>)
      ELSE IF provided # expected
      THEN Outcome(json(ErrBody("Invalid admin token"), 403, NoHeaders),
                   st.table, st.nextId, st.kv, <<"createClient">>)
      ELSE newsCreate(r, st)

newsAuthOnRequest(r, e, st) ==
  IF getAdminClientThrows(e)
  THEN Outcome(json(ErrBody(MissingStoreConfig), 500, NoHeaders),
               st.table, st.nextId, st.kv, <<>>)
  ELSE CASE r.method = "GET" -> newsList(r, st)
         [] r.method = "POST" -> newsAuthPost(r, e, st)
         [] OTHER -> MethodNotAllowed(st, <<"createClient">>)

(***************************************************************************)
(* /api/news/:id: partial update and delete of one row.                    *)
(***************************************************************************)
NaN == [nan |-> TRUE, value |-> 0]
Finite(n) == [nan |-> FALSE, value |-> n]

Digits == <<"0", "1", "2", "3", "4", "5", "6", "7", "8", "9">>
IsDigit(c) == \E i \in 1..10 : Digits[i] = c
DigitValue(c) == (CHOOSE i \in 1..10 : Digits[i] = c) - 1
RECURSIVE DecimalValue(_, _)
DecimalValue(s, acc) ==
  IF s = <<>> THEN acc ELSE DecimalValue(Tail(s), 10 * acc + DigitValue(Head(s)))
IsDecimal(s) == s # <<>> /\ \A i \in 1..Len(s) : IsDigit(s[i])

\* Number(v) for undefined and for strings made of blanks, a sign, decimal digits
\* and letters (no fraction, exponent or radix prefix is modelled)
ToNumber(v) ==
  IF TypeOf(v) # "str" THEN NaN
  ELSE LET c == Trim(Chars(v))
       IN  IF c = <<>> THEN Finite(0)
           ELSE IF IsDecimal(c) THEN Finite(DecimalValue(c, 0))
           ELSE IF Head(c) = "-" /\ IsDecimal(Tail(c)) THEN Finite(0 - DecimalValue(Tail(c), 0))
           ELSE IF Head(c) = "+" /\ IsDecimal(Tail(c)) THEN Finite(DecimalValue(Tail(c), 0))
           ELSE NaN

\* !id || Number.isNaN(id)
invalidId(id) == id.nan \/ id.value = 0

\* update(patch).eq('id', id): every row with that id takes the patch's columns
applyPatch(row, patch) ==
  [c \in DOMAIN row |-> IF c \in DOMAIN patch THEN patch[c] ELSE row[c]]
storeUpdate(t, id, patch) ==
  { IF row.id = id THEN applyPatch(row, patch) ELSE row : row \in t }
\* delete() without the eq('id', id) filter
storeDeleteAll(t, id) == {}
\* delete().eq('id', id)
storeDelete(t, id) == { row \in t : row.id # id }

newsItemUpdate(r, st, id) ==
  LET body == IF r.body.kind = "malformed" THEN Obj(NoFields) ELSE r.body
      patch == toDb(body)
      matched == { row \in st.table : row.id = id }
  IN  IF toDbThrows(body)
      THEN Outcome(json(ErrBody(TypeErrorMessage), 500, NoHeaders),
                   st.table, st.nextId, st.kv, <<"createClient">>)
      ELSE IF DOMAIN patch = {}
      THEN Outcome(json(ErrBody("No fields to update"), 400, NoHeaders),
                   st.table, st.nextId, st.kv, <<"createClient">>)
      ELSE IF r.storeFails \/ Cardinality(matched) # 1
      THEN \* the store reports an error; single() reports one unless one row came back
           Outcome(json(ErrBody(StoreError), 500, NoHeaders),
                   st.table, st.nextId, st.kv, <<"createClient", "update">>)
      ELSE Outcome(json(ItemBody(applyPatch(RowOf(st.table, id), patch)), 200, NoHeaders),
                   storeUpdate(st.table, id, patch), st.nextId, st.kv,
                   <<"createClient", "update">>)

newsItemDelete(r, st, id) ==
  IF r.storeFails
  THEN Outcome(json(ErrBody(StoreError), 500, NoHeaders),
               st.table, st.nextId, st.kv, <<"createClient", "delete">>)
  ELSE Outcome(json(OkBody, 200, NoHeaders),
               storeDelete(st.table, id), st.nextId, st.kv, <<"createClient", "delete">>)

\* ctx.params.id: the characters of the path after /api/news/
idParam(r) == IF Len(r.path) > 2 THEN Str(SubSeq(r.path, 3, Len(r.path))) ELSE Undefined

newsItemOnRequest(r, e, st) ==
  LET id == ToNumber(idParam(r))
  IN  IF invalidId(id)
      THEN Outcome(json(ErrBody("Invalid id"), 400, NoHeaders), st.table, st.nextId, st.kv, <<>>)
      ELSE IF getAdminClientThrows(e)
      THEN Outcome(json(ErrBody(MissingStoreConfig), 500, NoHeaders),
                   st.table, st.nextId, st.kv, <<>>)
      ELSE CASE r.method \in {"PUT", "PATCH"} -> newsItemUpdate(r, st, id.value)
             [] r.method = "DELETE" -> newsItemDelete(r, st, id.value)
             [] OTHER -> MethodNotAllowed(st, <<"createClient">>)

(***************************************************************************)
(* functions/[[path]].ts: the catch-all router.                            *)
(* A path is the sequence of its segments; after /api/news/ the elements   *)
(* are the characters of the id segment.                                   *)
(***************************************************************************)
\* url.pathname.startsWith('/api/')
isApiPath(path) == Len(path) >= 2 /\ path[1] = "api"

PreflightHeaders ==
  [h \in { "access-control-allow-origin", "access-control-allow-methods",
           "access-control-allow-headers", "access-control-max-age", "vary" } |->
    CASE h = "access-control-allow-origin" -> "*"
      [] h = "access-control-allow-methods" -> "GET,POST,PUT,PATCH,DELETE,OPTIONS"
      [] h = "access-control-allow-headers" -> "Content-Type,Authorization"
      [] h = "access-control-max-age" -> "86400"
      [] OTHER -> "Origin"]

\* headers.set('Access-Control-Allow-Origin', '*'); headers.set('Vary', 'Origin')
RouterCors ==
  [h \in {"access-control-allow-origin", "vary"} |->
    IF h = "access-control-allow-origin" THEN "*" ELSE "Origin"]

RouterErrorHeaders ==
  [h \in {"content-type"} |-> "application/json; charset=utf-8"] @@ RouterCors

\* the file-based route of a path: which handler ctx.next() runs, "none" when no
\* route is registered for the path and method
routeOf(r, e) ==
  IF Len(r.path) = 2 /\ r.path[2] = "news" THEN e.variant
  ELSE IF Len(r.path) > 2 /\ r.path[2] = "news" THEN "item"
  ELSE IF Len(r.path) = 2 /\ r.path[2] = "ping"
  THEN IF e.ping = "onRequest" THEN "ping"
       ELSE IF r.method = "GET" THEN "pingGet"
       ELSE IF r.method = "OPTIONS" THEN "pingOptions"
       ELSE "none"
  ELSE "none"

\* the handler ctx.next() delegates to
downstream(r, e, st) ==
  CASE routeOf(r, e) = "kv" -> newsKvOnRequest(r, st)
    [] routeOf(r, e) = "db" -> newsDbOnRequest(r, e, st)
    [] routeOf(r, e) = "dbAuth" -> newsAuthOnRequest(r, e, st)
    [] routeOf(r, e) = "item" -> newsItemOnRequest(r, e, st)
    [] routeOf(r, e) = "ping" -> pingOnRequest(r, st)
    [] routeOf(r, e) = "pingGet" -> pingOnRequestGet(r, st)
    [] OTHER -> pingOnRequestOptions(r, st)

\* new Response(res.body, { status: res.status, headers }) with the CORS headers set
withRouterCorsNoVary(res) ==
  Response(res.status, [h \in {"access-control-allow-origin"} |-> "*"] @@ res.headers, res.body)
withRouterCors(res) == Response(res.status, RouterCors @@ res.headers, res.body)

AssetBody == [kind |-> "asset", ok |-> "", error |-> "", count |-> -1, items |-> <<>>]

\* a CORS preflight for /api/*
isPreflightNoSubpath(r) == Len(r.path) = 2 /\ r.path[1] = "api" /\ r.method = "OPTIONS"
isPreflight(r) == isApiPath(r.path) /\ r.method = "OPTIONS"

onRequest(r, e, st) ==
  IF isPreflight(r)
  THEN Outcome(Response(204, PreflightHeaders, NoBody), st.table, st.nextId, st.kv, <<>>)
  ELSE IF isApiPath(r.path)
  THEN IF r.fault
       THEN \* ctx.next() throws
            Outcome(Response(500, RouterErrorHeaders, ErrBody("Internal error")),
                    st.table, st.nextId, st.kv, <<"next">>)
       ELSE IF routeOf(r, e) = "none"
       THEN Outcome(Response(404, RouterErrorHeaders, ErrBody("Not found")),
                    st.table, st.nextId, st.kv, <<"next">>)
       ELSE LET o == downstream(r, e, st)
            IN  Outcome(withRouterCors(o.resp), o.table, o.nextId, o.kv, <<"next">> \o o.calls)
  ELSE Outcome(Response(200, NoHeaders, AssetBody), st.table, st.nextId, st.kv, <<"assets">>)

(***************************************************************************)
(* Environment, requests and the state machine.                            *)
(***************************************************************************)
\* env.ADMIN_TOKEN: unset, blank, set, set with a trailing blank
AdminTokens == { Undefined, Str(<<" ">>), Str(<<"s3cret">>), Str(<<"s3cret", " ">>) }

\* variant: which of the repository's /api/news handlers is deployed;
\* ping: which of its /api/ping handlers
Envs ==
  [ storeConfigured : BOOLEAN, ADMIN_TOKEN : AdminTokens,
    variant : {"kv", "db", "dbAuth"}, ping : {"onRequest", "perMethod"} ]

\* before the first request
NoRequest ==
  Req("", <<>>, NoOrigin, "", Malformed, Undefined, Undefined, FALSE, FALSE, <<>>)
NoResponse == Response(0, NoHeaders, NoBody)

Date1 == Str(<<"2024-01-01">>)
Date2 == Str(<<"2024-02-01">>)

MinimalPost ==
  Obj(("title" :> Str(<<"a">>)) @@ ("date" :> Date1) @@ ("category" :> Str(<<"jubo">>)))
FullPost ==
  Obj(("title" :> Str(<<"b">>)) @@ ("date" :> Date2)
      @@ ("category" :> Str(<<"gongjisahang">>)) @@ ("content" :> Str(<<"x">>))
      @@ ("fileUrl" :> Str(<<"u">>)) @@ ("fileName" :> Str(<<"f">>))
      @@ ("fileSize" :> Str(<<"1MB">>)) @@ ("views" :> Num("3"))
      @@ ("isNew" :> Bool("true")) @@ ("showOnHome" :> Str(<<"yes">>))
      @@ ("imageUrl" :> Str(<<"i">>)))

CreateBodies ==
  { Malformed, BodyNull, BodyNum, BodyArray(<<>>), Obj(NoFields), MinimalPost, FullPost,
    Obj(("title" :> Str(<<"a">>)) @@ ("date" :> Date1) @@ ("category" :> Str(<<"invalid">>))),
    Obj(("title" :> Str(<<"a">>)) @@ ("date" :> Date1)),
    Obj(("title" :> Str(<<"a">>)) @@ ("category" :> Str(<<"jubo">>))),
    Obj(("title" :> Str(<<"a">>)) @@ ("date" :> Num("5")) @@ ("category" :> Str(<<"jubo">>))),
    Obj(("date" :> Date1) @@ ("category" :> Str(<<"jubo">>))),
    Obj(("title" :> Str(<<>>)) @@ ("date" :> Date1) @@ ("category" :> Str(<<"jubo">>))),
    Obj(("title" :> Num("5")) @@ ("date" :> Date1) @@ ("category" :> Str(<<"jubo">>))) }

PatchBodies ==
  { Malformed, BodyNull, BodyNum, BodyArray(<<>>), Obj(NoFields),
    Obj("title" :> Str(<<" ", "c", " ">>)),
    Obj(("category" :> Str(<<"invalid">>)) @@ ("fileUrl" :> JNull)
        @@ ("views" :> Str(<<"7">>))),
    Obj(("title" :> Num("5")) @@ ("unknown" :> Str(<<"x">>))) }

\* credentials of a request: the x-admin-token and authorization headers
Credentials ==
  { <<Undefined, Undefined>>,
    <<Str(<<"s3cret">>), Undefined>>,
    <<Str(<<"wrong">>), Undefined>>,
    <<Undefined, Str(<<"Bearer", " ", "s3cret">>)>>,
    <<Undefined, Str(<<"bearer", " ", " ", "wrong">>)>>,
    <<Undefined, Str(<<"Basic", " ", "s3cret">>)>>,
    <<Str(<<" ">>), Str(<<"Bearer", " ", "s3cret">>)>>,
    <<Str(<<"wrong">>), Str(<<"Bearer", " ", "s3cret">>)>> }

\* id segments of /api/news/:id
IdParams ==
  { <<Digits[i + 1]>> : i \in 1..MaxId }
    \cup { <<"9">>, <<"0">>, <<"-", "1">>, <<"abc">>, <<" ">> }

NewsPath == <<"api", "news">>
ItemPath(id) == <<"api", "news">> \o id

Store == [table |-> table, nextId |-> nextId, kv |-> kv]

\* one request handled to completion by the router, from the idle state between two
\* invocations; the store assigns at most MaxId ids
Serve(r) ==
  /\ req = NoRequest
  /\ \E o \in {onRequest(r, env, Store)} :
       /\ o.nextId <= MaxId + 1
       /\ table' = o.table
       /\ nextId' = o.nextId
       /\ kv' = o.kv
       /\ req' = r
       /\ resp' = o.resp
       /\ calls' = o.calls
       /\ UNCHANGED env

Handle(r) == Serve(r) /\ UNCHANGED <<submitted, writes, inflight>>

\* the invocation ends: nothing of it is kept but the store
Respond ==
  /\ req # NoRequest
  /\ req' = NoRequest
  /\ resp' = NoResponse
  /\ calls' = <<>>
  /\ UNCHANGED <<env, table, nextId, kv, submitted, writes, inflight>>

InitStore ==
  /\ table = {}
  /\ nextId = 1
  /\ kv = KvNull
  /\ req = NoRequest
  /\ resp = NoResponse
  /\ calls = <<>>
  /\ submitted = <<>>
  /\ writes = <<>>
  /\ inflight = <<>>

(***************************************************************************)
(* Spec: the news resource (list, create, partial update, delete) behind   *)
(* the router.                                                             *)
(***************************************************************************)
Init ==
  /\ env \in { e \in Envs : /\ e.ping = "onRequest"
                            /\ e.variant # "dbAuth" => e.ADMIN_TOKEN = Undefined }
  /\ InitStore

ListNews ==
  \E storeFails \in BOOLEAN, order \in ListOrders(table) :
    Handle(Req("GET", NewsPath, NoOrigin, "", Malformed, Undefined, Undefined,
               FALSE, storeFails, order))

CreateNews ==
  \E body \in CreateBodies, cred \in Credentials, storeFails \in BOOLEAN :
    /\ env.variant # "dbAuth" => cred = <<Undefined, Undefined>>
    /\ Handle(Req("POST", NewsPath, NoOrigin, "application/json", body, cred[1], cred[2],
                  FALSE, storeFails, <<>>))

UpdateNewsItem ==
  \E method \in {"PUT", "PATCH"}, id \in IdParams, body \in PatchBodies, storeFails \in BOOLEAN :
    Handle(Req(method, ItemPath(id), NoOrigin, "application/json", body, Undefined, Undefined,
               FALSE, storeFails, <<>>))

DeleteNewsItem ==
  \E id \in IdParams, storeFails \in BOOLEAN :
    Handle(Req("DELETE", ItemPath(id), NoOrigin, "", Malformed, Undefined, Undefined,
               FALSE, storeFails, <<>>))

\* methods the resource does not serve
OtherMethod ==
  \E path \in {NewsPath, ItemPath(<<"1">>)} :
    Handle(Req("HEAD", path, NoOrigin, "", Malformed, Undefined, Undefined,
               FALSE, FALSE, <<>>))

Next == ListNews \/ CreateNews \/ UpdateNewsItem \/ DeleteNewsItem \/ OtherMethod \/ Respond

Spec == Init /\ [][Next]_vars

(***************************************************************************)
(* SpecRouter: the catch-all router in front of every deployed handler,    *)
(* for requests of every method, path and origin.                          *)
(***************************************************************************)
Origins == { "https://woodong.or.kr", "https://evil.example", NoOrigin }
Methods == { "GET", "POST", "PUT", "PATCH", "DELETE", "HEAD" }
PingPath == <<"api", "ping">>
ApiPaths ==
  { NewsPath, ItemPath(<<"1">>), ItemPath(<<"abc">>), PingPath, <<"api", "unknown">>,
    <<"api", "">> }
StaticPaths == { <<"index.html">>, <<"api">>, <<"apis", "news">> }
RouterBodies ==
  { Malformed, MinimalPost, BodyArray(<<"p1">>), Obj("title" :> Str(<<" ", "c", " ">>)) }
\* what the KV namespace may hold before the first request
InitialKv == { KvNull, <<"not json">>, <<"{}">> }

InitRouter ==
  /\ env \in { e \in Envs : /\ e.variant # "dbAuth" => e.ADMIN_TOKEN = Undefined
                            /\ e.ADMIN_TOKEN \in {Undefined, Str(<<"s3cret">>)} }
  /\ table = {}
  /\ nextId = 1
  /\ kv \in IF env.variant = "kv" THEN InitialKv ELSE {KvNull}
  /\ req = NoRequest
  /\ resp = NoResponse
  /\ calls = <<>>
  /\ submitted = <<>>
  /\ writes = <<>>
  /\ inflight = <<>>

Preflight ==
  \E path \in ApiPaths, origin \in Origins :
    Handle(Req("OPTIONS", path, origin, "", Malformed, Undefined, Undefined,
               FALSE, FALSE, <<>>))

ApiRequest ==
  \E method \in Methods, path \in ApiPaths, origin \in Origins, body \in RouterBodies,
     fault \in BOOLEAN, storeFails \in BOOLEAN, order \in ListOrders(table) :
    /\ fault => ~storeFails
    /\ Handle(Req(method, path, origin, "application/json", body, Str(<<"s3cret">>), Undefined,
                  fault, storeFails, order))

StaticRequest ==
  \E method \in Methods \cup {"OPTIONS"}, path \in StaticPaths, origin \in Origins :
    Handle(Req(method, path, origin, "", Malformed, Undefined, Undefined,
               FALSE, FALSE, <<>>))

NextRouter == Preflight \/ ApiRequest \/ StaticRequest \/ Respond

SpecRouter == InitRouter /\ [][NextRouter]_vars

(***************************************************************************)
(* SpecKv: the KV-backed /api/news handler behind the router: reads and    *)
(* whole-collection replacements of the key "posts", one request at a      *)
(* time.                                                                   *)
(***************************************************************************)
\* the posts of a payload are opaque JSON values
Posts == { "p1", "p2" }
PostArrays == UNION { [1..n -> Posts] : n \in 0..MaxPosts }
KvBodies == { Malformed, BodyNull, BodyNum, Obj(NoFields), MinimalPost }
               \cup { BodyArray(a) : a \in PostArrays }

\* the arrays written by the handler so far, the one of this invocation included
Written(r, o) ==
  IF Len(o.calls) > 0 /\ o.calls[Len(o.calls)] = "kv.put" /\ o.resp.status = 200
  THEN Append(writes, r.body.elems)
  ELSE writes

InitKv ==
  /\ env \in { e \in Envs : /\ e.variant = "kv" /\ e.ping = "onRequest"
                            /\ e.ADMIN_TOKEN = Undefined /\ ~e.storeConfigured }
  /\ table = {}
  /\ nextId = 1
  /\ kv \in InitialKv
  /\ req = NoRequest
  /\ resp = NoResponse
  /\ calls = <<>>
  /\ submitted = <<>>
  /\ writes = <<>>
  /\ inflight = <<>>

\* a request to /api/news served to completion, the write it makes recorded
ServeKv(r) ==
  /\ Serve(r)
  /\ writes' = Written(r, onRequest(r, env, Store))
  /\ Len(writes') <= MaxWrites
  /\ UNCHANGED <<submitted, inflight>>

GetPosts ==
  \E origin \in Origins, storeFails \in BOOLEAN :
    ServeKv(Req("GET", NewsPath, origin, "", Malformed, Undefined, Undefined,
                FALSE, storeFails, <<>>))

PutPosts ==
  \E origin \in {NoOrigin, "https://woodong.or.kr"}, ctype \in ContentTypes,
     body \in KvBodies, storeFails \in BOOLEAN :
    ServeKv(Req("PUT", NewsPath, origin, ctype, body, Undefined, Undefined,
                FALSE, storeFails, <<>>))

\* methods the KV handler does not serve
KvOtherMethod ==
  \E method \in {"POST", "DELETE"} :
    ServeKv(Req(method, NewsPath, NoOrigin, "application/json", BodyArray(<<"p1">>),
                Undefined, Undefined, FALSE, FALSE, <<>>))

NextKv == GetPosts \/ PutPosts \/ KvOtherMethod \/ Respond

SpecKv == InitKv /\ [][NextKv]_vars

(***************************************************************************)
(* SpecRoundTrip: posts created through the database-backed /api/news      *)
(* handlers, listed, updated and deleted; submitted remembers the body a   *)
(* row was created from until the row is updated or deleted.               *)
(***************************************************************************)
\* a post whose optional fields all have the types of ApiNewsPost
TypedPost ==
  Obj(("title" :> Str(<<"b">>)) @@ ("date" :> Date1)
      @@ ("category" :> Str(<<"haengsaannae">>)) @@ ("content" :> Str(<<"x">>))
      @@ ("fileUrl" :> Str(<<"u">>)) @@ ("fileName" :> Str(<<"f">>))
      @@ ("fileSize" :> Str(<<"1MB">>)) @@ ("views" :> Num("3"))
      @@ ("isNew" :> Bool("true")) @@ ("showOnHome" :> Bool("false"))
      @@ ("imageUrl" :> Str(<<"i">>)))
RoundTripBodies ==
  { MinimalPost, FullPost, TypedPost,
    Obj(("title" :> Str(<<" ", "a">>)) @@ ("date" :> Date2) @@ ("category" :> Str(<<"jubo">>))
        @@ ("content" :> JNull) @@ ("fileUrl" :> JNull) @@ ("views" :> Str(<<"7">>))
        @@ ("isNew" :> Num("0"))),
    Obj(("title" :> Str(<<"a">>)) @@ ("date" :> Date1)),
    Malformed }
RoundTripPatches == { Obj("title" :> Str(<<"c">>)), Obj(NoFields) }

\* the bodies of the rows created and not updated or deleted since, by id
Recorded(r, o) ==
  IF r.method = "POST" /\ o.resp.status = 201
  THEN (o.resp.body.items[1].id :> r.body) @@ submitted
  ELSE IF \E i \in DOMAIN o.calls : o.calls[i] \in {"update", "delete"}
  THEN [i \in DOMAIN submitted \ {ToNumber(idParam(r)).value} |-> submitted[i]]
  ELSE submitted

InitRoundTrip ==
  /\ env \in { e \in Envs : /\ e.variant \in {"db", "dbAuth"} /\ e.ping = "onRequest"
                            /\ e.ADMIN_TOKEN =
                                 IF e.variant = "db" THEN Undefined ELSE Str(<<"s3cret">>) }
  /\ table = {}
  /\ nextId = 1
  /\ kv = KvNull
  /\ req = NoRequest
  /\ resp = NoResponse
  /\ calls = <<>>
  /\ submitted = <<>>
  /\ writes = <<>>
  /\ inflight = <<>>

\* a request served to completion, the creation or the change of a row recorded
ServeRecorded(r) ==
  /\ Serve(r)
  /\ submitted' = Recorded(r, onRequest(r, env, Store))
  /\ UNCHANGED <<writes, inflight>>

CreatePost ==
  \E body \in RoundTripBodies, storeFails \in BOOLEAN :
    ServeRecorded(Req("POST", NewsPath, NoOrigin, "application/json", body,
                      Str(<<"s3cret">>), Undefined, FALSE, storeFails, <<>>))

ListPosts ==
  \E storeFails \in BOOLEAN, order \in ListOrders(table) :
    ServeRecorded(Req("GET", NewsPath, NoOrigin, "", Malformed, Undefined, Undefined,
                      FALSE, storeFails, order))

UpdatePost ==
  \E id \in IdParams, body \in RoundTripPatches, storeFails \in BOOLEAN :
    ServeRecorded(Req("PATCH", ItemPath(id), NoOrigin, "application/json", body,
                      Undefined, Undefined, FALSE, storeFails, <<>>))

DeletePost ==
  \E id \in IdParams, storeFails \in BOOLEAN :
    ServeRecorded(Req("DELETE", ItemPath(id), NoOrigin, "", Malformed, Undefined, Undefined,
                      FALSE, storeFails, <<>>))

NextRoundTrip == CreatePost \/ ListPosts \/ UpdatePost \/ DeletePost \/ Respond

SpecRoundTrip == InitRoundTrip /\ [][NextRoundTrip]_vars

(***************************************************************************)
(* SpecConcurrent: requests of several callers to the KV-backed /api/news  *)
(* handler in flight together.  An invocation is suspended at its awaits:  *)
(* a GET at NEWS_KV.get, a PUT at request.json() and at NEWS_KV.put; the   *)
(* steps of different invocations interleave.  The key "posts" is a        *)
(* register: get returns the value of the latest put.                      *)
(***************************************************************************)
Clients == 1..MaxClients
Idle == [request |-> NoRequest, phase |-> "idle", response |-> NoResponse]
InFlight(r, phase, response) == [request |-> r, phase |-> phase, response |-> response]

PayloadA == <<"p1", "p1">>
PayloadB == <<"p2", "p2">>
ConcurrentPuts ==
  { <<"application/json", BodyArray(PayloadA), FALSE>>,
    <<"application/json", BodyArray(PayloadB), FALSE>>,
    <<"application/json", BodyArray(<<>>), FALSE>>,
    <<"application/json", BodyArray(PayloadB), TRUE>>,
    <<"application/json", Obj(NoFields), FALSE>>,
    <<"text/plain", BodyArray(PayloadA), FALSE>> }

\* the PUT invocations that have not made their store write yet
PendingPuts ==
  { c \in Clients : inflight[c].request.method = "PUT"
                      /\ inflight[c].phase \in {"received", "writing"} }

InitConcurrent ==
  /\ env \in { e \in Envs : /\ e.variant = "kv" /\ e.ping = "onRequest"
                            /\ e.ADMIN_TOKEN = Undefined /\ ~e.storeConfigured }
  /\ table = {}
  /\ nextId = 1
  /\ kv \in InitialKv
  /\ req = NoRequest
  /\ resp = NoResponse
  /\ calls = <<>>
  /\ submitted = <<>>
  /\ writes = <<>>
  /\ inflight = [c \in Clients |-> Idle]

\* a GET /api/news arrives
ArriveGet(c) ==
  /\ inflight[c].phase = "idle"
  /\ \E storeFails \in BOOLEAN :
       inflight' = [inflight EXCEPT ![c] =
         InFlight(Req("GET", NewsPath, NoOrigin, "", Malformed, Undefined, Undefined,
                      FALSE, storeFails, <<>>), "received", NoResponse)]
  /\ UNCHANGED <<env, table, nextId, kv, req, resp, calls, submitted, writes>>

\* a PUT /api/news arrives; at most MaxWrites writes are made in a behaviour
ArrivePut(c) ==
  /\ inflight[c].phase = "idle"
  /\ Len(writes) + Cardinality(PendingPuts) < MaxWrites
  /\ \E p \in ConcurrentPuts :
       inflight' = [inflight EXCEPT ![c] =
         InFlight(Req("PUT", NewsPath, NoOrigin, p[1], p[2], Undefined, Undefined,
                      FALSE, p[3], <<>>), "received", NoResponse)]
  /\ UNCHANGED <<env, table, nextId, kv, req, resp, calls, submitted, writes>>

\* GET: await env.NEWS_KV.get('posts') completes; the response is built from the value
ReadPosts(c) ==
  /\ inflight[c].phase = "received"
  /\ inflight[c].request.method = "GET"
  /\ \E o \in {onRequest(inflight[c].request, env, Store)} :
       inflight' = [inflight EXCEPT ![c] = InFlight(@.request, "responding", o.resp)]
  /\ UNCHANGED <<env, table, nextId, kv, req, resp, calls, submitted, writes>>

\* PUT: the content-type is checked and await request.json() completes; the handler
\* answers a rejected request and goes on to the store with an array
ParseBody(c) ==
  /\ inflight[c].phase = "received"
  /\ inflight[c].request.method = "PUT"
  /\ \E o \in {onRequest(inflight[c].request, env, Store)} :
       inflight' = [inflight EXCEPT ![c] =
         IF \E i \in DOMAIN o.calls : o.calls[i] = "kv.put"
         THEN InFlight(@.request, "writing", NoResponse)
         ELSE InFlight(@.request, "responding", o.resp)]
  /\ UNCHANGED <<env, table, nextId, kv, req, resp, calls, submitted, writes>>

\* PUT: await env.NEWS_KV.put('posts', serialized) completes
WritePosts(c) ==
  /\ inflight[c].phase = "writing"
  /\ \E o \in {onRequest(inflight[c].request, env, Store)} :
       /\ kv' = o.kv
       /\ writes' = Written(inflight[c].request, o)
       /\ inflight' = [inflight EXCEPT ![c] = InFlight(@.request, "responding", o.resp)]
  /\ UNCHANGED <<env, table, nextId, req, resp, calls, submitted>>

\* the response reaches the caller and the invocation ends
Deliver(c) ==
  /\ inflight[c].phase = "responding"
  /\ inflight' = [inflight EXCEPT ![c] = Idle]
  /\ UNCHANGED <<env, table, nextId, kv, req, resp, calls, submitted, writes>>

NextConcurrent ==
  \E c \in Clients :
    ArriveGet(c) \/ ArrivePut(c) \/ ReadPosts(c) \/ ParseBody(c) \/ WritePosts(c) \/ Deliver(c)

SpecConcurrent == InitConcurrent /\ [][NextConcurrent]_vars

(***************************************************************************)
(* Properties of the router.                                               *)
(***************************************************************************)
Range(f) == { f[i] : i \in DOMAIN f }
HasHeader(res, h) == h \in DOMAIN res.headers
CorsHeaderNames ==
  { "access-control-allow-origin", "access-control-allow-methods",
    "access-control-allow-headers", "access-control-max-age", "vary" }

\* C1: every non-OPTIONS /api/ request is answered with Access-Control-Allow-Origin and
\* Vary: Origin: the downstream response with its status and body unchanged, a 404
\* {ok:false} when no route matched, a 500 {ok:false} when the downstream threw.
C1_ApiResponsesCarryCors ==
  [][ (req' # NoRequest /\ isApiPath(req'.path) /\ req'.method # "OPTIONS") =>
        /\ HasHeader(resp', "access-control-allow-origin")
        /\ HasHeader(resp', "vary") /\ resp'.headers["vary"] = "Origin"
        /\ IF req'.fault
           THEN resp'.status = 500 /\ resp'.body.ok = "false" /\ resp'.body.kind = "json"
           ELSE IF routeOf(req', env) = "none"
           THEN resp'.status = 404 /\ resp'.body.ok = "false" /\ resp'.body.kind = "json"
           ELSE /\ resp'.status = downstream(req', env, Store).resp.status
                /\ resp'.body = downstream(req', env, Store).resp.body ]_vars

\* a downstream response other than 200 passed through with the CORS headers
C1_Witness ==
  /\ isApiPath(req.path) /\ req.method = "POST" /\ ~req.fault
  /\ resp.status = 201
  /\ HasHeader(resp, "access-control-allow-origin") /\ HasHeader(resp, "vary")
  /\ HasHeader(resp, "cache-control")

\* C2: OPTIONS on any /api/ path, routed or not, is answered 204 with an empty body and
\* only the CORS headers; neither ctx.next nor the asset fetch nor a store call happens.
C2_PreflightShortCircuits ==
  (req.method = "OPTIONS" /\ isApiPath(req.path)) =>
    /\ resp.status = 204
    /\ resp.body = NoBody
    /\ DOMAIN resp.headers = CorsHeaderNames
    /\ calls = <<>>

\* a preflight for a path below a route and one for a path without a route
C2_Witness ==
  /\ req.method = "OPTIONS" /\ req.path = <<"api", "unknown">>
  /\ routeOf(req, env) = "none"
  /\ resp.status = 204

\* C3 (as claimed): the Access-Control-Allow-Origin the caller receives for an /api/
\* request echoes an allow-listed Origin and is "*" for every other origin.
C3_AllowOriginEchoed ==
  (req # NoRequest /\ isApiPath(req.path)) =>
    /\ HasHeader(resp, "access-control-allow-origin")
    /\ resp.headers["access-control-allow-origin"] =
         IF req.origin \in ALLOWED_ORIGINS THEN req.origin ELSE "*"

(***************************************************************************)
(* Properties of the news resource.                                        *)
(***************************************************************************)
IsNewsPost(r) == r.method = "POST" /\ r.path = NewsPath
IsItemRequest(r) == Len(r.path) > 2 /\ r.path[1] = "api" /\ r.path[2] = "news"
IsItemUpdate(r) == IsItemRequest(r) /\ r.method \in {"PUT", "PATCH"}
IsItemDelete(r) == IsItemRequest(r) /\ r.method = "DELETE"
Performed(c, call) == call \in Range(c)
\* the id path parameter is a positive number
PositiveId(r) == ~ToNumber(idParam(r)).nan /\ ToNumber(idParam(r)).value > 0
IdOf(r) == ToNumber(idParam(r)).value

\* C4 (as claimed): every stored row's category is one of the three fixed values.
C4_StoredCategoriesValid == \A row \in table : row.category \in Categories

\* ADMIN_TOKEN with surrounding blanks removed; Undefined when unset or not a string
TrimmedAdminToken(e) ==
  IF TypeOf(e.ADMIN_TOKEN) = "str" THEN TrimStr(e.ADMIN_TOKEN) ELSE Undefined

\* C5 (as claimed): the admin-authenticated POST /api/news inserts only when the supplied
\* token equals ADMIN_TOKEN; otherwise no insert, and 500 when ADMIN_TOKEN is unset or
\* blank, 401 when no token was supplied, 403 when the token differs.
C5_AsClaimed ==
  (env.variant = "dbAuth" /\ IsNewsPost(req)) =>
    \/ readAdminTokenFromRequest(req) = env.ADMIN_TOKEN
    \/ /\ ~Performed(calls, "insert")
       /\ resp.status =
            IF ~Truthy(TrimmedAdminToken(env)) THEN 500
            ELSE IF ~Truthy(readAdminTokenFromRequest(req)) THEN 401
            ELSE 403

\* C5 (amended): the insert happens only when the store is configured and the supplied
\* token equals ADMIN_TOKEN with its surrounding blanks removed; otherwise nothing is
\* inserted, the table is unchanged, and the status is 500 when the store is not
\* configured or ADMIN_TOKEN is unset or blank, 401 when no token was supplied, 403 when
\* the supplied token differs.
C5_AdminGuard ==
  [][ (env.variant = "dbAuth" /\ IsNewsPost(req')) =>
        \/ /\ env.storeConfigured
           /\ Truthy(TrimmedAdminToken(env))
           /\ readAdminTokenFromRequest(req') = TrimmedAdminToken(env)
        \/ /\ ~Performed(calls', "insert")
           /\ table' = table
           /\ resp'.status =
                IF ~env.storeConfigured \/ ~Truthy(TrimmedAdminToken(env)) THEN 500
                ELSE IF ~Truthy(readAdminTokenFromRequest(req')) THEN 401
                ELSE 403 ]_vars

\* a request with a wrong token refused with 403 while the table holds a row
C5_Witness ==
  /\ env.variant = "dbAuth" /\ IsNewsPost(req)
  /\ resp.status = 403
  /\ validateCreate(req.body) = ""
  /\ table # {}

\* the create precondition of C6: store configured and, in the authenticated variant,
\* a valid admin token
CreateAdmitted(r, e) ==
  /\ IsNewsPost(r)
  /\ e.storeConfigured
  /\ \/ e.variant = "db"
     \/ /\ e.variant = "dbAuth"
        /\ Truthy(TrimmedAdminToken(e))
        /\ readAdminTokenFromRequest(r) = TrimmedAdminToken(e)
NonEmptyString(v) == TypeOf(v) = "str" /\ Len(Chars(v)) > 0
LacksTitle(b) == ~NonEmptyString(Get(b, "title"))
LacksDate(b) == ~NonEmptyString(Get(b, "date"))
BadCategory(b) == Get(b, "category") \notin Categories

\* C6 (as claimed): an admitted POST /api/news whose body lacks a non-empty string title
\* is answered 400 'title is required', one lacking a non-empty string date 400, one
\* with a category outside the three values 400; nothing is inserted.
C6_AsClaimed ==
  CreateAdmitted(req, env) =>
    /\ LacksTitle(req.body) => resp.status = 400 /\ resp.body.error = "title is required"
    /\ LacksDate(req.body) => resp.status = 400
    /\ BadCategory(req.body) => resp.status = 400
    /\ (LacksTitle(req.body) \/ LacksDate(req.body) \/ BadCategory(req.body)) =>
         ~Performed(calls, "insert")

\* C6 (amended): as claimed, but the error is 'title is required' only when the body is
\* a JSON object or array; a body that is not parseable or not an object is answered
\* 400 'Invalid JSON body'.  In every case nothing is inserted and the table is unchanged.
C6_CreateValidation ==
  [][ CreateAdmitted(req', env) =>
        /\ (LacksTitle(req'.body) \/ LacksDate(req'.body) \/ BadCategory(req'.body)) =>
             /\ resp'.status = 400
             /\ ~Performed(calls', "insert")
             /\ table' = table
        /\ LacksTitle(req'.body) =>
             resp'.body.error =
               IF req'.body.kind \in {"object", "array"} THEN "title is required"
               ELSE "Invalid JSON body" ]_vars

\* an object body without a title refused while the table holds a row
C6_Witness ==
  /\ CreateAdmitted(req, env)
  /\ req.body.kind = "object" /\ ~HasKey(req.body, "title") /\ HasKey(req.body, "date")
  /\ resp.status = 400 /\ resp.body.error = "title is required"
  /\ table # {}

\* C7 (as claimed, with the store configured): PUT, PATCH and DELETE on /api/news/:id
\* with an id that is not a positive number are answered 400 'Invalid id' before the
\* store client is built or any store call is made.
C7_NonPositiveIdRejected ==
  ( /\ env.storeConfigured
    /\ IsItemRequest(req) /\ req.method \in {"PUT", "PATCH", "DELETE"}
    /\ ~PositiveId(req) ) =>
    /\ resp.status = 400 /\ resp.body.error = "Invalid id"
    /\ calls = <<"next">>

\* the body key each column is written from
ApiKey(c) ==
  CASE c = "file_url" -> "fileUrl"
    [] c = "file_name" -> "fileName"
    [] c = "file_size" -> "fileSize"
    [] c = "is_new" -> "isNew"
    [] c = "show_on_home" -> "showOnHome"
    [] c = "image_url" -> "imageUrl"
    [] OTHER -> c

\* C8: a successful PUT|PATCH /api/news/:id keeps, in the row with that id, every field
\* whose key is absent from the body, keeps every other row, and adds or removes no row.
C8_PartialUpdateFrame ==
  [][ (IsItemUpdate(req') /\ resp'.status = 200) =>
        /\ { row.id : row \in table' } = { row.id : row \in table }
        /\ Cardinality(table') = Cardinality(table)
        /\ \A row \in table :
             IF row.id # IdOf(req') THEN row \in table'
             ELSE \E new \in table' :
                    /\ new.id = row.id
                    /\ \A c \in Columns :
                         ~HasKey(req'.body, ApiKey(c)) => new[c] = row[c] ]_vars

\* body {"title": " c "} applied to one of two rows: the title changed, the file kept
C8_Witness ==
  /\ IsItemUpdate(req) /\ resp.status = 200
  /\ DOMAIN req.body.fields = {"title"}
  /\ Cardinality(table) = 2
  /\ \E row \in table :
       /\ row.id = IdOf(req)
       /\ row.title = Str(<<"c">>)
       /\ row.file_url = Str(<<"u">>)

\* no updatable field is derived from the body
NoFieldDerived(b) == b.kind # "object" \/ toDbKeys(b) = {}

\* C9 (as claimed, with the store configured): PUT|PATCH /api/news/:id with a valid id and
\* a body from which no updatable field is derived is answered 400 'No fields to update'
\* and performs no store update.
C9_EmptyPatchRejected ==
  (env.storeConfigured /\ IsItemUpdate(req) /\ PositiveId(req) /\ NoFieldDerived(req.body)) =>
    /\ resp.status = 400 /\ resp.body.error = "No fields to update"
    /\ ~Performed(calls, "update")

\* C10: DELETE /api/news/:id with a valid id and a working store is answered 200 {ok:true}
\* whether or not the row exists and removes exactly the rows with that id, so that no
\* row with the id is left and a repeated DELETE finds nothing to remove.
C10_DeleteIdempotent ==
  [][ ( /\ IsItemDelete(req') /\ PositiveId(req')
        /\ env.storeConfigured /\ ~req'.storeFails ) =>
        /\ resp'.status = 200 /\ resp'.body = OkBody
        /\ table' = { row \in table : row.id # IdOf(req') }
        /\ \A row \in table' : row.id # IdOf(req')
        /\ (\A row \in table : row.id # IdOf(req')) => table' = table ]_vars

\* a DELETE of an id no row has, answered 200 while the table holds rows
C10_Witness ==
  /\ IsItemDelete(req) /\ req.path = ItemPath(<<"9">>)
  /\ resp.status = 200 /\ resp.body = OkBody
  /\ Cardinality(table) = 2
(***************************************************************************)
(* Properties of the KV-backed collection.                                 *)
(***************************************************************************)
IsKvPut(r, e) == r.method = "PUT" /\ r.path = NewsPath /\ e.variant = "kv" /\ ~r.fault
\* the content-type header contains application/json, whatever the case of its letters
ContainsJson(ctype) == ctype \in {"application/json", "Application/JSON; charset=utf-8"}

\* C11: a whole-collection PUT /api/news writes to the store only when the content-type
\* contains application/json and the parsed body is an array: any other content-type is
\* answered 415 and a parsed body that is not an array 400, both with no store write and
\* the stored collection unchanged; an array that is written is answered 200
\* {ok:true, count} with count the length of the array, and is the value then stored.
C11_PutWritesOnlyArrays ==
  [][ IsKvPut(req', env) =>
        /\ Performed(calls', "kv.put") =>
              ContainsJson(req'.ctype) /\ req'.body.kind = "array"
        /\ ~Performed(calls', "kv.put") => kv' = kv
        /\ ~ContainsJson(req'.ctype) =>
              resp'.status = 415 /\ ~Performed(calls', "kv.put") /\ kv' = kv
        /\ (ContainsJson(req'.ctype) /\ req'.body.kind \in {"null", "num", "object"}) =>
              resp'.status = 400 /\ ~Performed(calls', "kv.put") /\ kv' = kv
        /\ (ContainsJson(req'.ctype) /\ req'.body.kind = "array") =>
              /\ Performed(calls', "kv.put")
              /\ ~req'.storeFails =>
                    /\ resp'.status = 200
                    /\ resp'.body.ok = "true"
                    /\ resp'.body.count = Len(req'.body.elems)
                    /\ kv' = <<"[">> \o req'.body.elems \o <<"]">>
                    /\ writes' = Append(writes, req'.body.elems) ]_vars

\* an array of two posts accepted over a stored value, and counted
C11_Witness ==
  /\ IsKvPut(req, env) /\ req.ctype = "Application/JSON; charset=utf-8"
  /\ req.body.kind = "array" /\ Len(req.body.elems) = 2
  /\ resp.status = 200 /\ resp.body.count = 2
  /\ Len(writes) = 2 /\ writes[1] # writes[2]
  /\ kv = <<"[">> \o req.body.elems \o <<"]">>

(***************************************************************************)
(* Round trip of a created post.                                           *)
(***************************************************************************)
IsList(r) == r.method = "GET" /\ r.path = NewsPath
OptionalKeys ==
  { "content", "fileUrl", "fileName", "fileSize", "imageUrl", "views", "isNew", "showOnHome" }
\* the field is given a value by the body
Provided(b, k) == TypeOf(Get(b, k)) \notin {"undefined", "null"}
\* what the spec lists for an omitted field; "absent" is undefined
OmittedValue(k) ==
  CASE k = "content" -> <<"str">>
    [] k = "views" -> <<"num", "0">>
    [] k \in {"isNew", "showOnHome"} -> <<"bool", "false">>
    [] OTHER -> <<"undefined">>
\* the listed item of a row
Listed(id) == { resp.body.items[i] : i \in { j \in DOMAIN resp.body.items : resp.body.items[j].id = id } }

\* C12 (as claimed): after a successful POST /api/news, a GET /api/news with no update
\* or delete of the row in between lists one item with the assigned id whose title,
\* date, category and every provided optional field equal the submitted values, and
\* whose omitted fields are content '', views 0, flags false, file and image absent.
C12_AsClaimed ==
  (IsList(req) /\ resp.status = 200) =>
    \A id \in DOMAIN submitted :
      /\ Cardinality(Listed(id)) = 1
      /\ \A item \in Listed(id) :
           /\ \A k \in {"title", "date", "category"} : item[k] = Get(submitted[id], k)
           /\ \A k \in OptionalKeys :
                item[k] = IF Provided(submitted[id], k)
                          THEN Get(submitted[id], k) ELSE OmittedValue(k)

\* the value listed for a provided optional field: the submitted one, but 0 for a
\* views that is not a number and the truthiness of a flag that is not a boolean
ListedValue(k, v) ==
  CASE k = "views" -> IF TypeOf(v) = "num" THEN v ELSE <<"num", "0">>
    [] k \in {"isNew", "showOnHome"} ->
         IF TypeOf(v) = "bool" THEN v
         ELSE IF (TypeOf(v) = "str" /\ v # <<"str">>) \/ (TypeOf(v) = "num" /\ v # <<"num", "0">>)
         THEN <<"bool", "true">> ELSE <<"bool", "false">>
    [] OTHER -> v

\* C12 (amended): as claimed for title, date, category, content, the file and image
\* fields, a views submitted as a number and flags submitted as booleans; a views of
\* another type is listed as 0 and a flag of another type as its truthiness; an
\* optional field submitted as null is listed as an omitted one.
C12_RoundTrip ==
  (IsList(req) /\ resp.status = 200) =>
    \A id \in DOMAIN submitted :
      /\ Cardinality(Listed(id)) = 1
      /\ \A item \in Listed(id) :
           /\ \A k \in {"title", "date", "category"} : item[k] = Get(submitted[id], k)
           /\ \A k \in OptionalKeys :
                item[k] = IF Provided(submitted[id], k)
                          THEN ListedValue(k, Get(submitted[id], k)) ELSE OmittedValue(k)

\* a list of two posts created and untouched since: one with every optional field,
\* one with none
C12_Witness ==
  /\ IsList(req) /\ resp.status = 200 /\ Len(resp.body.items) = 2
  /\ \E i, j \in DOMAIN submitted :
       /\ DOMAIN submitted[i].fields = {"title", "date", "category"}
       /\ \A k \in OptionalKeys : Provided(submitted[j], k)
       /\ \E item \in Listed(j) : item.fileName = <<"str", "f">> /\ item.views = <<"num", "3">>
       /\ \E item \in Listed(i) : item.content = <<"str">> /\ item.fileUrl = <<"undefined">>

\* the endpoints that read a request body, when nothing but the body is at fault:
\* an admitted POST /api/news, a whole-collection PUT /api/news, and PUT|PATCH
\* /api/news/:id with the store configured
AcceptsBody(r, e) ==
  \/ CreateAdmitted(r, e)
  \/ IsKvPut(r, e)
  \/ IsItemUpdate(r) /\ e.storeConfigured
StoreWrites == { "kv.put", "insert", "update", "delete" }

\* C13 (as claimed): on every body-accepting endpoint a request whose body is not
\* parseable JSON is answered 400 or 415, never 500, and makes no store write.
C13_UnparseableBodyIsClientError ==
  ( /\ req # NoRequest /\ ~req.fault /\ ~req.storeFails
    /\ AcceptsBody(req, env)
    /\ req.body.kind = "malformed" ) =>
      /\ resp.status \in {400, 415}
      /\ Range(calls) \cap StoreWrites = {}

(***************************************************************************)
(* Concurrent whole-collection replacements and reads.                     *)
(***************************************************************************)
\* the array a caller's GET is answered with
GetAnswer(c) == inflight[c].response.body.items
Answered(c, method) ==
  /\ inflight[c].phase = "responding"
  /\ inflight[c].request.method = method
  /\ inflight[c].response.status = 200
\* c's handler makes its store access in this step
Accesses(c, method) ==
  /\ inflight[c].request.method = method
  /\ inflight[c].phase \in {"received", "writing"}
  /\ inflight'[c].phase = "responding"
  /\ inflight'[c].response.status = 200

\* C14: under any interleaving of whole-collection PUTs and GETs on the key, every
\* accepted PUT makes one store write, of its entire array; every GET is answered with
\* the empty array or with the entire array of one accepted PUT, never with a mixture
\* of two payloads; and a GET that reads once all PUTs have finished is answered with
\* the array written last.
C14_WholePayloadsOnly ==
  /\ [](\A c \in Clients :
          Answered(c, "GET") =>
            \/ GetAnswer(c) = <<>>
            \/ \E i \in DOMAIN writes : GetAnswer(c) = writes[i])
  /\ [][ \A c \in Clients :
           /\ Accesses(c, "PUT") =>
                 /\ writes' = Append(writes, inflight[c].request.body.elems)
                 /\ kv' = <<"[">> \o inflight[c].request.body.elems \o <<"]">>
           /\ (Accesses(c, "GET") /\ PendingPuts = {} /\ writes # <<>>) =>
                 inflight'[c].response.body.items = writes[Len(writes)] ]_vars
  /\ [][ writes' # writes => \E c \in Clients : Accesses(c, "PUT") ]_vars

\* a GET answered with the whole first payload while a later PUT has replaced it, and
\* another answered with the payload written last
C14_Witness ==
  /\ Len(writes) = 2 /\ writes[1] = PayloadA /\ writes[2] = PayloadB
  /\ PendingPuts = {}
  /\ \E c, d \in Clients :
       /\ Answered(c, "GET") /\ GetAnswer(c) = PayloadA
       /\ Answered(d, "PUT") /\ inflight[d].request.body.elems = PayloadB
       /\ kv = <<"[", "p2", "p2", "]">>

====
